---- MODULE Spec2Model ----
(***************************************************************************)
(* Model of the Maxy display controller library (src/Maxy/__init__.py):    *)
(* the frame codec, the message encoders and the module / sub-module       *)
(* device model that decides when a wire message is written to the serial  *)
(* port.                                                                   *)
(***************************************************************************)
EXTENDS Integers, Sequences, FiniteSets, TLC

VARIABLES
    index,      \* MaxyController.index : the list of MaxyModule objects
    name,       \* MaxyController.name  : name -> module or sub-module
    serial,     \* MaxyController._serial and the state of the port behind it
    call,       \* the most recent call: what was called, its outcome, the
                \* bytes it handed to serial.write
    pure,       \* a stand-alone use of a pure function (an encoder, the
                \* codec): the function, its arguments, what it returned
    log,        \* what the attached port has received, write by write, and
                \* the calls that made those writes
    hist,       \* per sub-module, what the target frames on the wire said
    driver      \* the reconnect loop of main.py: where it is, retry_count

vars == <<index, name, serial, call, pure, log, hist, driver>>

(***************************************************************************)
(* Bounds of the model.                                                    *)
(***************************************************************************)
MaxLen == 3     \* longest payload given to the codec on its own

(***************************************************************************)
(* Bytes and integer <-> bytes conversion (int.to_bytes, big-endian).      *)
(***************************************************************************)
Pow2(n) == 2 ^ n

RECURSIVE BigEndian(_, _)
\* the `length` base-256 digits of n, most significant first; for a negative
\* n the floored \div and % give the two's-complement digits
BigEndian(n, length) ==
    IF length = 0 THEN <<>>
    ELSE Append(BigEndian(n \div 256, length - 1), n % 256)

NoBytes == <<>>

\* whether val fits `length` bytes (every integer of the model fits 4 signed)
Fits(val, length, signed) ==
    IF signed
    THEN length >= 4 \/ (-Pow2(8 * length - 1) <= val /\ val < Pow2(8 * length - 1))
    ELSE val >= 0 /\ (length >= 4 \/ val < Pow2(8 * length))

\* faulty variant of to_bytes: byteorder="little"
to_bytes_little(val, length, signed) ==
    IF ~Fits(val, length, signed)
    THEN [error |-> "OverflowError", bytes |-> NoBytes]
    ELSE [error |-> "",
          bytes |-> [i \in 1..length |-> BigEndian(val, length)[length + 1 - i]]]

\* int.to_bytes(length, byteorder="big", signed=...): OverflowError when the
\* value does not fit, otherwise the two's-complement digits.
to_bytes(val, length, signed) ==
    IF ~Fits(val, length, signed)
    THEN [error |-> "OverflowError", bytes |-> NoBytes]
    ELSE [error |-> "", bytes |-> BigEndian(val, length)]

(***************************************************************************)
(* Frame codec.                                                            *)
(***************************************************************************)
\* faulty variant of escape_message: only the escape byte itself is escaped
RECURSIVE escape_only_fc(_)
escape_only_fc(msg) ==
    IF msg = <<>> THEN <<>>
    ELSE LET c == Head(msg)
         IN  (IF c = 252 THEN <<252, c>> ELSE <<c>>) \o escape_only_fc(Tail(msg))

\* faulty variant of escape_message: c > 0xfc in place of c >= 0xfc
RECURSIVE escape_above_fc(_)
escape_above_fc(msg) ==
    IF msg = <<>> THEN <<>>
    ELSE LET c == Head(msg)
         IN  (IF c > 252 THEN <<252, c>> ELSE <<c>>) \o escape_above_fc(Tail(msg))

RECURSIVE escape_message(_)
escape_message(msg) ==
    IF msg = <<>> THEN <<>>
    ELSE LET c == Head(msg)
         IN  (IF c >= 252 THEN <<252, c>> ELSE <<c>>) \o escape_message(Tail(msg))

\* the bytes MaxyController.send_message hands to serial.write
frame(msg) == <<253>> \o escape_message(msg) \o <<254>>

(***************************************************************************)
(* Range validation and clamping.                                          *)
(***************************************************************************)
\* TRUE when range_validate_int returns, FALSE when it raises ValueError
range_validate_int(val, minimum, maximum) == minimum <= val /\ val <= maximum

Min2(a, b) == IF a <= b THEN a ELSE b
Max2(a, b) == IF a >= b THEN a ELSE b

\* faulty variant of clamp: the lower bound is not applied
clamp_upper_only(value, min_value, max_value) == Min2(max_value, value)

clamp(value, min_value, max_value) == Min2(max_value, Max2(min_value, value))

(***************************************************************************)
(* Message encoders (MaxyMessages).  Each returns [error, bytes]: error is *)
(* "" when the message is returned, else the exception raised.             *)
(***************************************************************************)
MID_RESET_CONFIG == <<50>>
MID_SET_ALL_INTENSITY == <<51>>
MID_SET_MODULE_TYPE == <<58>>
MID_SET_MODULE_TARGET == <<66>>
MID_SET_SUB_MODULE_TARGET == <<67>>
MID_SET_MODULE_IMMEDIATE_TARGET == <<68>>
MID_SET_SUB_MODULE_IMMEDIATE_TARGET == <<69>>
MID_SET_MODULE_INTENSITY == <<70>>

Raise(e) == [error |-> e, bytes |-> NoBytes]

\* opcode followed by the fields; the first field that overflows raises
RECURSIVE Concat(_, _)
Concat(acc, fields) ==
    IF fields = <<>> THEN [error |-> "", bytes |-> acc]
    ELSE IF Head(fields).error # "" THEN Raise(Head(fields).error)
    ELSE Concat(acc \o Head(fields).bytes, Tail(fields))

reset_all_module_config_message == [error |-> "", bytes |-> MID_RESET_CONFIG]

set_all_module_intensity(intensity) ==
    IF ~range_validate_int(intensity, 0, 15) THEN Raise("ValueError")
    ELSE Concat(MID_SET_ALL_INTENSITY, <<to_bytes(intensity, 1, FALSE)>>)

\* faulty variant of set_module_target_message: the opcode of the
\* immediate message
set_module_target_message_imm(module_index, target) ==
    IF ~range_validate_int(module_index, 0, 63) THEN Raise("ValueError")
    ELSE IF ~range_validate_int(target, -9999999, 99999999) THEN Raise("ValueError")
    ELSE Concat(MID_SET_MODULE_IMMEDIATE_TARGET,
                <<to_bytes(module_index, 1, FALSE), to_bytes(target, 4, TRUE)>>)

set_module_target_message(module_index, target) ==
    IF ~range_validate_int(module_index, 0, 63) THEN Raise("ValueError")
    ELSE IF ~range_validate_int(target, -9999999, 99999999) THEN Raise("ValueError")
    ELSE Concat(MID_SET_MODULE_TARGET,
                <<to_bytes(module_index, 1, FALSE), to_bytes(target, 4, TRUE)>>)

set_module_immediate_target_message(module_index, target) ==
    IF ~range_validate_int(module_index, 0, 63) THEN Raise("ValueError")
    ELSE IF ~range_validate_int(target, -9999999, 99999999) THEN Raise("ValueError")
    ELSE Concat(MID_SET_MODULE_IMMEDIATE_TARGET,
                <<to_bytes(module_index, 1, FALSE), to_bytes(target, 4, TRUE)>>)

set_sub_module_immediate_target_message(module_index, sub_module, target) ==
    IF ~range_validate_int(module_index, 0, 63) THEN Raise("ValueError")
    ELSE IF ~range_validate_int(target, -9999999, 99999999) THEN Raise("ValueError")
    ELSE Concat(MID_SET_SUB_MODULE_IMMEDIATE_TARGET,
                <<to_bytes(module_index, 1, FALSE), to_bytes(sub_module, 1, FALSE),
                  to_bytes(target, 4, TRUE)>>)

\* faulty variant of set_sub_module_target_message: the target packed in 3 bytes
set_sub_module_target_message_3(module_index, sub_module, target) ==
    IF ~range_validate_int(module_index, 0, 63) THEN Raise("ValueError")
    ELSE IF ~range_validate_int(sub_module, 0, 7) THEN Raise("ValueError")
    ELSE IF ~range_validate_int(target, -9999999, 99999999) THEN Raise("ValueError")
    ELSE Concat(MID_SET_SUB_MODULE_TARGET,
                <<to_bytes(module_index, 1, FALSE), to_bytes(sub_module, 1, FALSE),
                  to_bytes(target, 3, TRUE)>>)

set_sub_module_target_message(module_index, sub_module, target) ==
    IF ~range_validate_int(module_index, 0, 63) THEN Raise("ValueError")
    ELSE IF ~range_validate_int(sub_module, 0, 7) THEN Raise("ValueError")
    ELSE IF ~range_validate_int(target, -9999999, 99999999) THEN Raise("ValueError")
    ELSE Concat(MID_SET_SUB_MODULE_TARGET,
                <<to_bytes(module_index, 1, FALSE), to_bytes(sub_module, 1, FALSE),
                  to_bytes(target, 4, TRUE)>>)

\* the second check validates module_index again, against the intensity range
set_module_intensity(module_index, intensity) ==
    IF ~range_validate_int(module_index, 0, 63) THEN Raise("ValueError")
    ELSE IF ~range_validate_int(module_index, 0, 15) THEN Raise("ValueError")
    ELSE Concat(MID_SET_MODULE_INTENSITY,
                <<to_bytes(module_index, 1, FALSE), to_bytes(intensity, 1, FALSE)>>)

\* the second check validates module_index again; the opcode is the intensity one
set_module_speed_divider(module_index, intensity) ==
    IF ~range_validate_int(module_index, 0, 63) THEN Raise("ValueError")
    ELSE IF ~range_validate_int(module_index, 0, 65000) THEN Raise("ValueError")
    ELSE Concat(MID_SET_MODULE_INTENSITY,
                <<to_bytes(module_index, 1, FALSE), to_bytes(intensity, 2, FALSE)>>)

set_module_type(module_index, module_type) ==
    IF ~range_validate_int(module_index, 0, 63) THEN Raise("ValueError")
    ELSE IF ~range_validate_int(module_type, 0, 63) THEN Raise("ValueError")
    ELSE Concat(MID_SET_MODULE_TYPE,
                <<to_bytes(module_index, 1, FALSE), to_bytes(module_type, 1, FALSE)>>)

(***************************************************************************)
(* Module kinds: the class constants of MaxyModule and its subclasses.     *)
(***************************************************************************)
ModuleTypes == {"MaxyModule", "MaxyModule_8x7seg", "MaxyModule_2x4x7seg"}

SUB_MODULE_COUNT(module_type) ==
    IF module_type = "MaxyModule_2x4x7seg" THEN 2 ELSE 1

TARGET_MIN(module_type) ==
    IF module_type = "MaxyModule_2x4x7seg" THEN -999 ELSE -9999999

TARGET_MAX(module_type) ==
    IF module_type = "MaxyModule_2x4x7seg" THEN 9999 ELSE 99999999

MODULE_TYPE_ID(module_type) ==
    CASE module_type = "MaxyModule_8x7seg" -> 3
      [] module_type = "MaxyModule_2x4x7seg" -> 4
      [] OTHER -> 0

\* faulty variant of ALLOW_MAIN_MODULE_TARGET_CHANGES: the 2x4x7seg override is lost
allow_always(module_type) == TRUE

ALLOW_MAIN_MODULE_TARGET_CHANGES(module_type) ==
    module_type # "MaxyModule_2x4x7seg"

(***************************************************************************)
(* Objects.                                                                *)
(***************************************************************************)
\* MaxySubModule.__init__
MaxySubModule(sub_module_id) == [sub_module_id |-> sub_module_id, target |-> 0]

\* MaxyModule.__init__: sub-modules get the ids range(SUB_MODULE_COUNT)
MaxyModule(module_type, module_index) ==
    [module_index |-> module_index,
     module_type  |-> module_type,
     intensity    |-> 0,
     sub_modules  |-> [k \in 1..SUB_MODULE_COUNT(module_type) |-> MaxySubModule(k - 1)]]

\* MaxModuleDef.__init__; a None entry of the definitions list is NoneDef
MaxModuleDef(def_name, module_type, sub_modules) ==
    [name |-> def_name, module_type |-> module_type, sub_module_names |-> sub_modules]

NoneDef == MaxModuleDef("", "None", <<>>)

\* what a name of the registry refers to: a module (by its position in
\* index, 1-based here) or one of its sub-modules (position in sub_modules)
ModuleRef(pos) == [unit |-> "module", pos |-> pos, sub |-> 0]
SubModuleRef(pos, k) == [unit |-> "sub", pos |-> pos, sub |-> k]

\* DictObject.__setitem__
SetItem(values, key, value) ==
    [x \in (DOMAIN values) \cup {key} |-> IF x = key THEN value ELSE values[x]]

EmptyDict == [x \in {} |-> ModuleRef(0)]

(***************************************************************************)
(* The definitions lists and the values the callers pass.                  *)
(***************************************************************************)
Right1Def == MaxModuleDef("Right1", "MaxyModule_8x7seg", <<>>)
TailDef == MaxModuleDef("tail", "MaxyModule_2x4x7seg", <<"tail1", "tail2">>)
PlainDef == MaxModuleDef("", "MaxyModule", <<>>)

Nones(n) == [i \in 1..n |-> NoneDef]

\* definitions lists: a named module alone, a list with a None entry before
\* the two-part tail module, and lists long enough to pass the index ranges
\* the encoders validate (15 and 63)
DefinitionLists ==
    { <<Right1Def>>,
      <<NoneDef, TailDef>>,
      <<Right1Def>> \o Nones(15) \o <<PlainDef>>,
      Nones(64) \o <<Right1Def>> }

\* targets: below every range, zero, the example 42, above the 2x4x7seg
\* range, and 0x00FCFDFE whose bytes are the codec's special values
TargetInputs == {-10000000, 0, 42, 20000, 16580094}
\* intensities: below the range, the top of the range, above the range
IntensityInputs == {-1, 15, 16}

(***************************************************************************)
(* MaxyController.                                                         *)
(***************************************************************************)
NoCall ==
    [op |-> "init", pos |-> 0, sub |-> 0, value |-> 0,
     result |-> "ok", writes |-> <<>>]

\* no pure function is being used on its own
Idle == [fn |-> "", args |-> <<>>, applied |-> FALSE, error |-> "", bytes |-> <<>>]

\* nothing received, nothing observed, the driver script not running
EmptyLog == [received |-> <<>>, issued |-> <<>>]
Nothing == [x \in {} |-> 0]
NoHistory == [sent |-> Nothing, clean |-> TRUE, unsent |-> Nothing]
NoDriver ==
    [pc |-> "off", stmt |-> 0, retry_count |-> 0, delay |-> 0,
     failed |-> 0, cause |-> ""]

\* the observers are idle
Quiet == UNCHANGED <<log, hist, driver>>

\* MaxyController.__init__
Init ==
    /\ index = <<>>
    /\ name = EmptyDict
    /\ serial = "none"
    /\ call = NoCall
    /\ pure = Idle
    /\ log = EmptyLog
    /\ hist = NoHistory
    /\ driver = NoDriver

\* faulty variant of send_message: the frame is written, and written again
send_message_twice(port, msg) ==
    IF port = "none" THEN [result |-> "IOError", writes |-> <<>>]
    ELSE IF port = "broken" THEN [result |-> "SerialException", writes |-> <<>>]
    ELSE [result |-> "ok", writes |-> <<frame(msg), frame(msg)>>]

\* MaxyController.serial + send_message on a port in state `port`:
\* IOError when no open port is attached, the port's exception when the
\* write fails, else one write of the framed message
send_message(port, msg) ==
    IF port = "none" THEN [result |-> "IOError", writes |-> <<>>]
    ELSE IF port = "broken" THEN [result |-> "SerialException", writes |-> <<>>]
    ELSE [result |-> "ok", writes |-> <<frame(msg)>>]

\* send_message(MaxyMessages.xxx(...)): the encoder runs first, and its
\* exception leaves send_message uncalled
Emit(port, encoded) ==
    IF encoded.error # "" THEN [result |-> encoded.error, writes |-> <<>>]
    ELSE send_message(port, encoded.bytes)

\* the names one definition adds to the registry
RECURSIVE sub_module_names_from(_, _, _, _)
sub_module_names_from(values, names, k, pos) ==
    IF k > Len(names) THEN values
    ELSE sub_module_names_from(
            IF names[k] # "" THEN SetItem(values, names[k], SubModuleRef(pos, k))
            ELSE values,
            names, k + 1, pos)

Truncate(s, n) == IF Len(s) <= n THEN s ELSE SubSeq(s, 1, n)

\* the loop of define_modules from enumerate position i (0-based) on
RECURSIVE define_from(_, _, _, _)
define_from(module_definitions, i, idx, values) ==
    IF i >= Len(module_definitions) THEN [index |-> idx, name |-> values]
    ELSE LET module_def == module_definitions[i + 1]
         IN  IF module_def = NoneDef
             THEN define_from(module_definitions, i + 1, idx, values)
             ELSE LET new_module == MaxyModule(module_def.module_type, i)
                      idx2 == Append(idx, new_module)
                      v1 == IF module_def.name # ""
                            THEN SetItem(values, module_def.name, ModuleRef(Len(idx2)))
                            ELSE values
                      count == SUB_MODULE_COUNT(module_def.module_type)
                      v2 == IF count > 1 /\ module_def.sub_module_names # <<>>
                            THEN sub_module_names_from(
                                    v1, Truncate(module_def.sub_module_names, count),
                                    1, Len(idx2))
                            ELSE v1
                  IN  define_from(module_definitions, i + 1, idx2, v2)

\* define_modules on each of the definitions lists, computed once
Defined == [d \in DefinitionLists |-> define_from(d, 0, <<>>, EmptyDict)]

define_modules(module_definitions) ==
    LET r == Defined[module_definitions]
    IN  /\ index' = r.index
        /\ name' = r.name
        /\ call' = [NoCall EXCEPT !.op = "define_modules"]
        /\ UNCHANGED <<serial, pure>>

\* the loop of configure_module_types over the remaining modules
RECURSIVE configure_from(_, _, _)
configure_from(port, modules, written) ==
    IF modules = <<>> THEN [result |-> "ok", writes |-> written]
    ELSE LET module == Head(modules)
             r == Emit(port, set_module_type(module.module_index,
                                             MODULE_TYPE_ID(module.module_type)))
         IN  IF r.result # "ok" THEN [result |-> r.result, writes |-> written]
             ELSE configure_from(port, Tail(modules), written \o r.writes)

configure_module_types ==
    LET r == configure_from(serial, index, <<>>)
    IN  /\ call' = [NoCall EXCEPT !.op = "configure_module_types",
                                  !.result = r.result, !.writes = r.writes]
        /\ UNCHANGED <<index, name, serial, pure>>

\* faulty variant of connect: a successful connection starts every cache
\* from its reset value again
connect_resetting ==
    \E opened \in BOOLEAN :
        IF ~opened
        THEN /\ call' = [NoCall EXCEPT !.op = "connect", !.result = "SerialException"]
             /\ UNCHANGED <<index, name, serial, pure>>
        ELSE LET r == configure_from("open", index, <<>>)
             IN  /\ serial' = "open"
                 /\ index' = [i \in 1..Len(index) |->
                                 MaxyModule(index[i].module_type, index[i].module_index)]
                 /\ call' = [NoCall EXCEPT !.op = "connect",
                                           !.result = r.result, !.writes = r.writes]
                 /\ UNCHANGED <<name, pure>>

\* serial.Serial(...) either raises (and _serial keeps its value) or returns
\* an open port, on which configure_module_types then runs
connect ==
    \E opened \in BOOLEAN :
        IF ~opened
        THEN /\ call' = [NoCall EXCEPT !.op = "connect", !.result = "SerialException"]
             /\ UNCHANGED <<index, name, serial, pure>>
        ELSE LET r == configure_from("open", index, <<>>)
             IN  /\ serial' = "open"
                 /\ call' = [NoCall EXCEPT !.op = "connect",
                                           !.result = r.result, !.writes = r.writes]
                 /\ UNCHANGED <<index, name, pure>>

\* faulty variant of set_global_intensity: the broadcast value is also
\* stored as the cached intensity of every module
set_global_intensity_caching(intensity) ==
    LET r == Emit(serial, set_all_module_intensity(intensity))
    IN  /\ call' = [NoCall EXCEPT !.op = "set_global_intensity", !.value = intensity,
                                  !.result = r.result, !.writes = r.writes]
        /\ index' = [i \in 1..Len(index) |->
                        [index[i] EXCEPT !.intensity = clamp(intensity, 0, 15)]]
        /\ UNCHANGED <<name, serial, pure>>

set_global_intensity(intensity) ==
    LET r == Emit(serial, set_all_module_intensity(intensity))
    IN  /\ call' = [NoCall EXCEPT !.op = "set_global_intensity", !.value = intensity,
                                  !.result = r.result, !.writes = r.writes]
        /\ UNCHANGED <<index, name, serial, pure>>

\* the port behind _serial stops accepting writes (cable pulled, timeout)
port_fails ==
    /\ serial = "open"
    /\ serial' = "broken"
    /\ call' = [NoCall EXCEPT !.op = "port_fails"]
    /\ UNCHANGED <<index, name, pure>>

(***************************************************************************)
(* The units a caller can reach: index[p] and index[p].sub_modules[k],     *)
(* and whatever the names of the registry refer to.                        *)
(***************************************************************************)
ModuleHandles ==
    {ModuleRef(p) : p \in 1..Len(index)}
    \cup {name[n] : n \in {x \in DOMAIN name : name[x].unit = "module"}}

SubModuleHandles ==
    {SubModuleRef(x[1], x[2]) :
        x \in {y \in (1..Len(index)) \X (1..2) : y[2] <= Len(index[y[1]].sub_modules)}}
    \cup {name[n] : n \in {x \in DOMAIN name : name[x].unit = "sub"}}

(***************************************************************************)
(* MaxySubModule.                                                          *)
(***************************************************************************)
\* faulty variant of sub_module_set: the cache is updated only once the write
\* has succeeded
sub_module_set_rollback(pos, k, target, immediate) ==
    LET module == index[pos]
        sub_module == module.sub_modules[k]
        clamped == clamp(target, TARGET_MIN(module.module_type),
                                 TARGET_MAX(module.module_type))
    IN  IF clamped # sub_module.target
        THEN LET encoded ==
                    IF immediate
                    THEN set_sub_module_immediate_target_message(
                            module.module_index, sub_module.sub_module_id, clamped)
                    ELSE set_sub_module_target_message(
                            module.module_index, sub_module.sub_module_id, clamped)
                 r == Emit(serial, encoded)
             IN  [index |-> IF r.result = "ok"
                            THEN [index EXCEPT ![pos].sub_modules[k].target = clamped]
                            ELSE index,
                  result |-> r.result, writes |-> r.writes]
        ELSE [index |-> index, result |-> "ok", writes |-> <<>>]

\* faulty variant of sub_module_set: the cache takes the requested value,
\* the message the clamped one
sub_module_set_unclamped(pos, k, target, immediate) ==
    LET module == index[pos]
        sub_module == module.sub_modules[k]
        clamped == clamp(target, TARGET_MIN(module.module_type),
                                 TARGET_MAX(module.module_type))
    IN  IF clamped # sub_module.target
        THEN LET encoded ==
                    IF immediate
                    THEN set_sub_module_immediate_target_message(
                            module.module_index, sub_module.sub_module_id, clamped)
                    ELSE set_sub_module_target_message(
                            module.module_index, sub_module.sub_module_id, clamped)
                 r == Emit(serial, encoded)
             IN  [index |-> [index EXCEPT ![pos].sub_modules[k].target = target],
                  result |-> r.result, writes |-> r.writes]
        ELSE [index |-> index, result |-> "ok", writes |-> <<>>]

\* the body shared by MaxySubModule._set_target and set_immediate_target,
\* which differ in the encoder only: the new index and what the call did
sub_module_set(pos, k, target, immediate) ==
    LET module == index[pos]
        sub_module == module.sub_modules[k]
        clamped == clamp(target, TARGET_MIN(module.module_type),
                                 TARGET_MAX(module.module_type))
    IN  IF clamped # sub_module.target
        THEN LET encoded ==
                    IF immediate
                    THEN set_sub_module_immediate_target_message(
                            module.module_index, sub_module.sub_module_id, clamped)
                    ELSE set_sub_module_target_message(
                            module.module_index, sub_module.sub_module_id, clamped)
                 r == Emit(serial, encoded)
             IN  [index |-> [index EXCEPT ![pos].sub_modules[k].target = clamped],
                  result |-> r.result, writes |-> r.writes]
        ELSE [index |-> index, result |-> "ok", writes |-> <<>>]

MaxySubModule_set_target(h, target) ==
    LET r == sub_module_set(h.pos, h.sub, target, FALSE)
    IN  /\ index' = r.index
        /\ call' = [NoCall EXCEPT !.op = "MaxySubModule._set_target", !.pos = h.pos, !.sub = h.sub,
                                  !.value = target,
                                  !.result = r.result, !.writes = r.writes]
        /\ UNCHANGED <<name, serial, pure>>

\* faulty variant of MaxySubModule_set_immediate_target: the immediate
\* message is sent without looking at the cached target
MaxySubModule_set_immediate_target_always(h, target) ==
    LET module == index[h.pos]
        sub_module == module.sub_modules[h.sub]
        clamped == clamp(target, TARGET_MIN(module.module_type),
                                 TARGET_MAX(module.module_type))
        r == Emit(serial, set_sub_module_immediate_target_message(
                            module.module_index, sub_module.sub_module_id, clamped))
    IN  /\ index' = [index EXCEPT ![h.pos].sub_modules[h.sub].target = clamped]
        /\ call' = [NoCall EXCEPT !.op = "MaxySubModule.set_immediate_target",
                                  !.pos = h.pos, !.sub = h.sub, !.value = target,
                                  !.result = r.result, !.writes = r.writes]
        /\ UNCHANGED <<name, serial, pure>>

MaxySubModule_set_immediate_target(h, target) ==
    LET r == sub_module_set(h.pos, h.sub, target, TRUE)
    IN  /\ index' = r.index
        /\ call' = [NoCall EXCEPT !.op = "MaxySubModule.set_immediate_target", !.pos = h.pos, !.sub = h.sub,
                                  !.value = target,
                                  !.result = r.result, !.writes = r.writes]
        /\ UNCHANGED <<name, serial, pure>>

(***************************************************************************)
(* MaxyModule.                                                             *)
(***************************************************************************)
MaxyModule_set_intensity(h, intensity) ==
    LET module == index[h.pos]
        clamped == clamp(intensity, 0, 15)
        r == IF clamped # module.intensity
             THEN Emit(serial, set_module_intensity(module.module_index, clamped))
             ELSE [result |-> "ok", writes |-> <<>>]
    IN  /\ index' = IF clamped # module.intensity
                    THEN [index EXCEPT ![h.pos].intensity = clamped]
                    ELSE index
        /\ call' = [NoCall EXCEPT !.op = "MaxyModule._set_intensity", !.pos = h.pos, !.value = intensity,
                                  !.result = r.result, !.writes = r.writes]
        /\ UNCHANGED <<name, serial, pure>>

\* the body shared by MaxyModule._set_target and set_immediate_target
module_set(pos, target, immediate) ==
    IF ~ALLOW_MAIN_MODULE_TARGET_CHANGES(index[pos].module_type)
    THEN [index |-> index, result |-> "TypeError", writes |-> <<>>]
    ELSE sub_module_set(pos, 1, target, immediate)

MaxyModule_set_target(h, target) ==
    LET r == module_set(h.pos, target, FALSE)
    IN  /\ index' = r.index
        /\ call' = [NoCall EXCEPT !.op = "MaxyModule._set_target", !.pos = h.pos, !.value = target,
                                  !.result = r.result, !.writes = r.writes]
        /\ UNCHANGED <<name, serial, pure>>

MaxyModule_set_immediate_target(h, target) ==
    LET r == module_set(h.pos, target, TRUE)
    IN  /\ index' = r.index
        /\ call' = [NoCall EXCEPT !.op = "MaxyModule.set_immediate_target", !.pos = h.pos, !.value = target,
                                  !.result = r.result, !.writes = r.writes]
        /\ UNCHANGED <<name, serial, pure>>

(***************************************************************************)
(* The device model as a state machine: any caller, any order of calls.    *)
(***************************************************************************)
Next ==
    \/ \E d \in DefinitionLists : define_modules(d) /\ Quiet
    \/ connect /\ Quiet
    \/ configure_module_types /\ Quiet
    \/ \E v \in IntensityInputs : set_global_intensity(v) /\ Quiet
    \/ \E h \in ModuleHandles, v \in IntensityInputs :
            MaxyModule_set_intensity(h, v) /\ Quiet
    \/ \E h \in ModuleHandles, v \in TargetInputs :
            MaxyModule_set_target(h, v) /\ Quiet
    \/ \E h \in ModuleHandles, v \in TargetInputs :
            MaxyModule_set_immediate_target(h, v) /\ Quiet
    \/ \E h \in SubModuleHandles, v \in TargetInputs :
            MaxySubModule_set_target(h, v) /\ Quiet
    \/ \E h \in SubModuleHandles, v \in TargetInputs :
            MaxySubModule_set_immediate_target(h, v) /\ Quiet
    \/ port_fails /\ Quiet

Spec == Init /\ [][Next]_vars

(***************************************************************************)
(* The wire.  serial.write hands the bytes of one call to the port, which  *)
(* receives them in the order of the calls; log.received is what the port  *)
(* opened last has received, one entry per write, and log.issued names,    *)
(* for each of those writes, the call of the library that made it.         *)
(***************************************************************************)
MaxWire == 2

WireDefinitionLists == {<<Right1Def>>}
WireTargetInputs == {0, 42}
WireIntensityInputs == {15}

\* the call that makes the i-th write of the step: the unit it addresses
\* (as it was when the call was made) and the value it was given
Issuer(i) ==
    LET p == IF call'.op \in {"connect", "configure_module_types"}
             THEN i ELSE call'.pos
        module == IF p \in 1..Len(index) THEN index[p]
                  ELSE MaxyModule("MaxyModule", 0)
    IN  [op |-> call'.op,
         module_index |-> module.module_index,
         module_type |-> module.module_type,
         sub_module_id |-> IF call'.sub \in 1..Len(module.sub_modules)
                           THEN module.sub_modules[call'.sub].sub_module_id
                           ELSE module.sub_modules[1].sub_module_id,
         value |-> call'.value]

\* serial.Serial(...) returns a new port, which has received nothing yet;
\* every write of the step then reaches the port in the order it was made
Logged ==
    LET opened == call'.op = "connect" /\ call'.result # "SerialException"
        before == IF opened THEN EmptyLog ELSE log
    IN  /\ Len(before.received) + Len(call'.writes) <= MaxWire
        /\ log' = [received |-> before.received \o call'.writes,
                   issued |-> before.issued
                              \o [i \in 1..Len(call'.writes) |-> Issuer(i)]]
        /\ UNCHANGED <<hist, driver>>

NextWire ==
    \/ \E d \in WireDefinitionLists : define_modules(d) /\ Logged
    \/ connect /\ Logged
    \/ configure_module_types /\ Logged
    \/ \E v \in WireIntensityInputs : set_global_intensity(v) /\ Logged
    \/ \E h \in ModuleHandles, v \in WireIntensityInputs :
            MaxyModule_set_intensity(h, v) /\ Logged
    \/ \E h \in ModuleHandles, v \in WireTargetInputs :
            MaxyModule_set_target(h, v) /\ Logged
    \/ \E h \in ModuleHandles, v \in WireTargetInputs :
            MaxyModule_set_immediate_target(h, v) /\ Logged
    \/ \E h \in SubModuleHandles, v \in WireTargetInputs :
            MaxySubModule_set_target(h, v) /\ Logged
    \/ \E h \in SubModuleHandles, v \in WireTargetInputs :
            MaxySubModule_set_immediate_target(h, v) /\ Logged
    \/ port_fails /\ Logged

SpecWire == Init /\ [][NextWire]_vars

(***************************************************************************)
(* The driver script main.py: it registers its modules, then connects,     *)
(* sets the global intensity and updates targets for ever; a serial        *)
(* exception sends it to sleep for retry_delay(retry_count) seconds before *)
(* it connects again.  driver.pc is the statement it is at, driver.failed  *)
(* counts the connection attempts that failed in a row, and driver.cause   *)
(* tells what sent the script to sleep.                                    *)
(***************************************************************************)
MaxRetries == 4

MainDefinitions ==
    <<MaxModuleDef("Right1", "MaxyModule_8x7seg", <<>>),
      MaxModuleDef("Right2", "MaxyModule_8x7seg", <<>>),
      MaxModuleDef("Right3", "MaxyModule_8x7seg", <<>>),
      MaxModuleDef("Right4", "MaxyModule_8x7seg", <<>>),
      MaxModuleDef("Left1", "MaxyModule_8x7seg", <<>>),
      MaxModuleDef("Left2", "MaxyModule_8x7seg", <<>>),
      MaxModuleDef("Left3", "MaxyModule_8x7seg", <<>>),
      MaxModuleDef("Left4", "MaxyModule_8x7seg", <<>>),
      MaxModuleDef("tail", "MaxyModule_2x4x7seg", <<"tail1", "tail2">>)>>

MainDefined == define_from(MainDefinitions, 0, <<>>, EmptyDict)

\* main.py has its own clamp
main_clamp(value, min_value, max_value) == Min2(max_value, Max2(min_value, value))

retry_delay(count) == 5 * Pow2(main_clamp(count, 0, 2))

\* random.randint(a, b), drawn from the upper end of the range
randint(a, b) == {b}

\* the statements of the inner loop, in order: the unit assigned to,
\* whether immediate_target or target is assigned, and the values drawn
LoopBody ==
    <<[h |-> name["Right1"], immediate |-> TRUE, values |-> {0}],
      [h |-> name["Right1"], immediate |-> FALSE, values |-> randint(-9999999, 9999999)],
      [h |-> name["tail1"], immediate |-> FALSE, values |-> randint(-999, 9999)],
      [h |-> name["tail2"], immediate |-> FALSE, values |-> randint(-999, 999)],
      [h |-> ModuleRef(2), immediate |-> FALSE, values |-> randint(-9999999, 9999999)],
      [h |-> name["Right3"], immediate |-> FALSE, values |-> randint(-9999999, 9999999)],
      [h |-> ModuleRef(4), immediate |-> FALSE, values |-> randint(-9999999, 9999999)],
      [h |-> name["Left1"], immediate |-> FALSE, values |-> randint(-9999, 9999)],
      [h |-> name["Left2"], immediate |-> FALSE, values |-> randint(-999, 999)],
      [h |-> name["Left3"], immediate |-> FALSE, values |-> randint(-99, 99)],
      [h |-> name["Left4"], immediate |-> FALSE, values |-> randint(-9, 9)]>>

\* the except clauses and the lines after them: a serial exception is
\* caught and the script sleeps for retry_delay(retry_count); any other
\* exception ends the script
Caught(d, cause) ==
    IF call'.result \in {"SerialException", "SerialTimeoutException"}
    THEN [d EXCEPT !.pc = "sleep", !.stmt = 0, !.cause = cause,
                   !.delay = retry_delay(d.retry_count)]
    ELSE [d EXCEPT !.pc = "crashed", !.stmt = 0]

\* lines 8-25
driver_start ==
    /\ driver.pc = "off"
    /\ index' = MainDefined.index
    /\ name' = MainDefined.name
    /\ call' = [NoCall EXCEPT !.op = "define_modules"]
    /\ driver' = [driver EXCEPT !.pc = "connect", !.retry_count = 0]
    /\ UNCHANGED <<serial, pure, log, hist>>

\* lines 39-41: retry_count += 1, then maxy.connect
driver_connect ==
    /\ driver.pc = "connect"
    /\ driver.retry_count < MaxRetries
    /\ connect
    /\ LET d == [driver EXCEPT !.retry_count = @ + 1]
       IN  driver' = IF call'.result = "ok"
                     THEN [d EXCEPT !.pc = "intensity", !.failed = 0]
                     ELSE Caught([d EXCEPT !.failed = @ + 1], "connect")
    /\ UNCHANGED <<log, hist>>

\* lines 42-45: maxy.set_global_intensity(3), then retry_count = 0
driver_set_global_intensity ==
    /\ driver.pc = "intensity"
    /\ set_global_intensity(3)
    /\ driver' = IF call'.result = "ok"
                 THEN [driver EXCEPT !.pc = "loop", !.stmt = 1, !.retry_count = 0]
                 ELSE Caught(driver, "write")
    /\ UNCHANGED <<log, hist>>

\* lines 47-58: one assignment of the inner loop; after the last one the
\* script sleeps 4.5 s and starts the loop body again
driver_assign ==
    /\ driver.pc = "loop"
    /\ LET st == LoopBody[driver.stmt]
       IN  \E v \in st.values :
               IF st.h.unit = "sub"
               THEN MaxySubModule_set_target(st.h, v)
               ELSE IF st.immediate
                    THEN MaxyModule_set_immediate_target(st.h, v)
                    ELSE MaxyModule_set_target(st.h, v)
    /\ driver' = IF call'.result = "ok"
                 THEN [driver EXCEPT !.stmt = IF @ = Len(LoopBody) THEN 1 ELSE @ + 1]
                 ELSE Caught(driver, "write")
    /\ UNCHANGED <<log, hist>>

\* line 65: time.sleep(delay) returns, and the outer loop starts again
driver_wake ==
    /\ driver.pc = "sleep"
    /\ driver' = [driver EXCEPT !.pc = "connect"]
    /\ call' = [NoCall EXCEPT !.op = "sleep"]
    /\ UNCHANGED <<index, name, serial, pure, log, hist>>

NextDriver ==
    \/ driver_start
    \/ driver_connect
    \/ driver_set_global_intensity
    \/ driver_assign
    \/ driver_wake
    \/ port_fails /\ Quiet

SpecDriver == Init /\ [][NextDriver]_vars

(***************************************************************************)
(* What the display has been told.  hist.sent gives, for the module and    *)
(* sub-module bytes of the target frames written since define_modules, the *)
(* target of the latest such frame; hist.clean says that no write has      *)
(* failed so far; hist.unsent gives, for a sub-module (position in index,  *)
(* position in sub_modules), the target whose write failed and which has   *)
(* not been replaced by another request since.                             *)
(***************************************************************************)
HistoryDefinitionLists == {<<Right1Def>>, <<NoneDef, TailDef>>}
HistoryTargetInputs == {0, 42, 20000}
HistoryIntensityInputs == {15}

Put(f, key, value) == [x \in (DOMAIN f) \cup {key} |-> IF x = key THEN value ELSE f[x]]
Drop(f, key) == [x \in (DOMAIN f) \ {key} |-> f[x]]

\* the payload the receiver reads from the bytes of one write
Payload(f) ==
    LET inner == IF Len(f) >= 2 THEN SubSeq(f, 2, Len(f) - 1) ELSE <<>>
        unescape[i \in 1..(Len(inner) + 1)] ==
            IF i > Len(inner) THEN <<>>
            ELSE IF inner[i] = 252 /\ i < Len(inner)
                 THEN <<inner[i + 1]>> \o (IF i + 2 > Len(inner) THEN <<>> ELSE unescape[i + 2])
                 ELSE <<inner[i]>> \o unescape[i + 1]
    IN  unescape[1]

\* the target a receiver reads from four big-endian bytes
Target32(b) ==
    (IF b[1] >= 128 THEN b[1] - 256 ELSE b[1]) * 16777216
        + b[2] * 65536 + b[3] * 256 + b[4]

\* sent, after the receiver has read the writes in order
RECURSIVE Heard(_, _)
Heard(sent, writes) ==
    IF writes = <<>> THEN sent
    ELSE LET p == Payload(Head(writes))
         IN  Heard(IF Len(p) = 7 /\ p[1] \in {67, 69}
                   THEN Put(sent, <<p[2], p[3]>>, Target32(SubSeq(p, 4, 7)))
                   ELSE sent,
                   Tail(writes))

\* the observer of one step of the library
Recorded ==
    LET op == call'.op
        target_op == op \in {"MaxySubModule._set_target", "MaxySubModule.set_immediate_target",
                             "MaxyModule._set_target", "MaxyModule.set_immediate_target"}
        failed == call'.result \in {"IOError", "SerialException"} /\ op # "connect"
        u == <<call'.pos, IF call'.sub = 0 THEN 1 ELSE call'.sub>>
        reached == target_op /\ call'.result # "TypeError"
        c == IF reached
             THEN clamp(call'.value, TARGET_MIN(index[call'.pos].module_type),
                                     TARGET_MAX(index[call'.pos].module_type))
             ELSE 0
    IN  /\ hist' =
              IF op = "define_modules" THEN [NoHistory EXCEPT !.clean = hist.clean]
              ELSE [sent |-> Heard(hist.sent, call'.writes),
                    clean |-> hist.clean /\ ~failed,
                    unsent |-> IF reached /\ failed THEN Put(hist.unsent, u, c)
                               ELSE IF reached /\ u \in DOMAIN hist.unsent
                                       /\ c # hist.unsent[u]
                                    THEN Drop(hist.unsent, u)
                                    ELSE hist.unsent]
        /\ UNCHANGED <<log, driver>>

NextHistory ==
    \/ \E d \in HistoryDefinitionLists : define_modules(d) /\ Recorded
    \/ connect /\ Recorded
    \/ configure_module_types /\ Recorded
    \/ \E v \in HistoryIntensityInputs : set_global_intensity(v) /\ Recorded
    \/ \E h \in ModuleHandles, v \in HistoryIntensityInputs :
            MaxyModule_set_intensity(h, v) /\ Recorded
    \/ \E h \in ModuleHandles, v \in HistoryTargetInputs :
            MaxyModule_set_target(h, v) /\ Recorded
    \/ \E h \in ModuleHandles, v \in HistoryTargetInputs :
            MaxyModule_set_immediate_target(h, v) /\ Recorded
    \/ \E h \in SubModuleHandles, v \in HistoryTargetInputs :
            MaxySubModule_set_target(h, v) /\ Recorded
    \/ \E h \in SubModuleHandles, v \in HistoryTargetInputs :
            MaxySubModule_set_immediate_target(h, v) /\ Recorded
    \/ port_fails /\ Recorded

SpecHistory == Init /\ [][NextHistory]_vars

(***************************************************************************)
(* The pure functions on their own: the encoders are class methods and     *)
(* escape_message a module function, callable with any arguments.          *)
(***************************************************************************)
ModuleIndexInputs == {-1, 0, 15, 16, 63, 64}
SubModuleInputs == {-1, 0, 7, 8}
IntensityFieldInputs == {-1, 0, 15, 16, 256}
TargetFieldInputs == {-10000000, -9999999, -1, 0, 42, 99999999, 100000000}
SpeedDividerInputs == {-1, 0, 65000, 65001, 65536}
ModuleTypeInputs == {-1, 0, 63, 64}

\* payload bytes: ordinary ones and the four the codec treats specially
CodecBytes == {0, 42, 251, 252, 253, 254, 255}
Payloads == UNION {[1..n -> CodecBytes] : n \in 0..MaxLen}

Use(fn, args) == [Idle EXCEPT !.fn = fn, !.args = args]

PureUses ==
    {Use("reset_all_module_config_message", <<>>)}
    \cup {Use("set_all_module_intensity", <<i>>) : i \in IntensityFieldInputs}
    \cup {Use("set_module_target_message", <<m, t>>) :
            m \in ModuleIndexInputs, t \in TargetFieldInputs}
    \cup {Use("set_module_immediate_target_message", <<m, t>>) :
            m \in ModuleIndexInputs, t \in TargetFieldInputs}
    \cup {Use("set_sub_module_immediate_target_message", <<m, s, t>>) :
            m \in ModuleIndexInputs, s \in SubModuleInputs, t \in TargetFieldInputs}
    \cup {Use("set_sub_module_target_message", <<m, s, t>>) :
            m \in ModuleIndexInputs, s \in SubModuleInputs, t \in TargetFieldInputs}
    \cup {Use("set_module_intensity", <<m, i>>) :
            m \in ModuleIndexInputs, i \in IntensityFieldInputs}
    \cup {Use("set_module_speed_divider", <<m, d>>) :
            m \in ModuleIndexInputs, d \in SpeedDividerInputs}
    \cup {Use("set_module_type", <<m, t>>) :
            m \in ModuleIndexInputs, t \in ModuleTypeInputs}
    \cup {Use("escape_message", <<p>>) : p \in Payloads}
    \cup {Use("frame", <<p>>) : p \in Payloads}

InitPure ==
    /\ index = <<>>
    /\ name = EmptyDict
    /\ serial = "none"
    /\ call = NoCall
    /\ pure \in PureUses
    /\ log = EmptyLog
    /\ hist = NoHistory
    /\ driver = NoDriver

\* the function named fn is applied to the arguments and returns r
Apply(fn, r) ==
    /\ pure.fn = fn
    /\ ~pure.applied
    /\ pure' = [pure EXCEPT !.applied = TRUE, !.error = r.error, !.bytes = r.bytes]
    /\ UNCHANGED <<index, name, serial, call>>
    /\ Quiet

use_reset_all_module_config_message ==
    Apply("reset_all_module_config_message", reset_all_module_config_message)

use_set_all_module_intensity ==
    Apply("set_all_module_intensity", set_all_module_intensity(pure.args[1]))

use_set_module_target_message ==
    Apply("set_module_target_message",
          set_module_target_message(pure.args[1], pure.args[2]))

use_set_module_immediate_target_message ==
    Apply("set_module_immediate_target_message",
          set_module_immediate_target_message(pure.args[1], pure.args[2]))

use_set_sub_module_immediate_target_message ==
    Apply("set_sub_module_immediate_target_message",
          set_sub_module_immediate_target_message(pure.args[1], pure.args[2],
                                                  pure.args[3]))

use_set_sub_module_target_message ==
    Apply("set_sub_module_target_message",
          set_sub_module_target_message(pure.args[1], pure.args[2], pure.args[3]))

use_set_module_intensity ==
    Apply("set_module_intensity", set_module_intensity(pure.args[1], pure.args[2]))

use_set_module_speed_divider ==
    Apply("set_module_speed_divider",
          set_module_speed_divider(pure.args[1], pure.args[2]))

use_set_module_type ==
    Apply("set_module_type", set_module_type(pure.args[1], pure.args[2]))

use_escape_message ==
    Apply("escape_message", [error |-> "", bytes |-> escape_message(pure.args[1])])

use_frame ==
    Apply("frame", [error |-> "", bytes |-> frame(pure.args[1])])

NextPure ==
    \/ use_reset_all_module_config_message
    \/ use_set_all_module_intensity
    \/ use_set_module_target_message
    \/ use_set_module_immediate_target_message
    \/ use_set_sub_module_immediate_target_message
    \/ use_set_sub_module_target_message
    \/ use_set_module_intensity
    \/ use_set_module_speed_divider
    \/ use_set_module_type
    \/ use_escape_message
    \/ use_frame

SpecPure == InitPure /\ [][NextPure]_vars

(***************************************************************************)
(* Reading the wire: what a receiver of the byte stream decodes.           *)
(***************************************************************************)
\* the bytes between the delimiters of a frame
Region(f) == SubSeq(f, 2, Len(f) - 1)

Delimited(f) == Len(f) >= 2 /\ f[1] = 253 /\ f[Len(f)] = 254

\* 0xFC is an escape that consumes the byte after it
RECURSIVE Unescape(_)
Unescape(s) ==
    IF s = <<>> THEN <<>>
    ELSE IF Head(s) = 252 /\ Len(s) >= 2
         THEN <<s[2]>> \o Unescape(Tail(Tail(s)))
         ELSE <<Head(s)>> \o Unescape(Tail(s))

\* read left to right, no 0xFC, 0xFD or 0xFE stands on its own
RECURSIVE WellEscaped(_)
WellEscaped(s) ==
    IF s = <<>> THEN TRUE
    ELSE IF Head(s) = 252 THEN Len(s) >= 2 /\ WellEscaped(Tail(Tail(s)))
    ELSE Head(s) \notin {253, 254} /\ WellEscaped(Tail(s))

\* the signed 32-bit integer four big-endian bytes stand for
Signed32(b) ==
    (IF b[1] >= 128 THEN b[1] - 256 ELSE b[1]) * 16777216
        + b[2] * 65536 + b[3] * 256 + b[4]

\* f is one frame carrying [opcode, module byte, sub-module byte, target]
IsTargetFrame(f, opcode, module_index, sub_module_id, target) ==
    /\ Delimited(f)
    /\ LET p == Unescape(Region(f))
       IN  /\ Len(p) = 7
           /\ p[1] = opcode
           /\ p[2] = module_index
           /\ p[3] = sub_module_id
           /\ Signed32(SubSeq(p, 4, 7)) = target

\* the nearest value of lo..hi
Nearest(v, lo, hi) == IF v < lo THEN lo ELSE IF v > hi THEN hi ELSE v

RangeMin(module) == IF module.module_type = "MaxyModule_2x4x7seg" THEN -999 ELSE -9999999
RangeMax(module) == IF module.module_type = "MaxyModule_2x4x7seg" THEN 9999 ELSE 99999999

TargetOps == {"MaxySubModule._set_target", "MaxySubModule.set_immediate_target",
              "MaxyModule._set_target", "MaxyModule.set_immediate_target"}
MutatingOps == TargetOps \cup {"MaxyModule._set_intensity", "set_global_intensity"}

\* this step is a call of op (every action records what it was in call)
Called(op) == call'.op = op

(***************************************************************************)
(* C1: a non-immediate set_target(v) on a sub-module of a module with      *)
(* index 0..63, port open: with c the value of the kind's range nearest to *)
(* v, nothing is written and nothing changes when c is the cached target;  *)
(* otherwise the cache becomes c and exactly one frame is written, the     *)
(* SetSubModuleTarget message [0x43, module_index, sub_module_id, c as 4   *)
(* big-endian bytes].                                                      *)
(***************************************************************************)
C1_Step ==
    (Called("MaxySubModule._set_target") /\ serial = "open"
        /\ index[call'.pos].module_index \in 0..63)
    => LET module == index[call'.pos]
           k == call'.sub
           c == Nearest(call'.value, RangeMin(module), RangeMax(module))
       IN  IF c = module.sub_modules[k].target
           THEN call'.writes = <<>> /\ index' = index
           ELSE /\ index' = [index EXCEPT ![call'.pos].sub_modules[k].target = c]
                /\ Len(call'.writes) = 1
                /\ IsTargetFrame(call'.writes[1], 67, module.module_index,
                                 module.sub_modules[k].sub_module_id, c)

C1_SetTargetWritesClamped == [][C1_Step]_vars

\* the request 20000 on the range [-999, 9999] was written as 9999 (0x270F)
C1_Witness ==
    /\ call.op = "MaxySubModule._set_target"
    /\ call.value = 20000
    /\ index[call.pos].module_type = "MaxyModule_2x4x7seg"
    /\ index[call.pos].sub_modules[call.sub].target = 9999
    /\ call.writes = << <<253, 67, 1, call.sub - 1, 0, 0, 39, 15, 254>> >>

(***************************************************************************)
(* C2: in every reachable state every cached target lies in the range of   *)
(* its module's kind and every cached intensity lies in 0..15, whatever    *)
(* calls were made and however they ended.                                 *)
(***************************************************************************)
C2_CachesInRange ==
    \A p \in 1..Len(index) :
        /\ index[p].intensity \in 0..15
        /\ \A k \in 1..Len(index[p].sub_modules) :
              /\ RangeMin(index[p]) <= index[p].sub_modules[k].target
              /\ index[p].sub_modules[k].target <= RangeMax(index[p])

\* a call that failed, after a request below the range, left the bound cached
C2_Witness ==
    /\ call.op = "MaxySubModule.set_immediate_target"
    /\ call.result # "ok"
    /\ call.value = -10000000
    /\ index[call.pos].sub_modules[call.sub].target = -999
    /\ \E p \in 1..Len(index) : index[p].intensity = 15

(***************************************************************************)
(* C3: when set_intensity, set_target, set_immediate_target or             *)
(* set_global_intensity fails with a validation error, nothing was written *)
(* and no cached intensity or target has changed.                          *)
(***************************************************************************)
C3_Step ==
    (call'.op \in MutatingOps /\ call'.result = "ValueError")
    => call'.writes = <<>> /\ index' = index

C3_ValidationErrorChangesNothing == [][C3_Step]_vars

(***************************************************************************)
(* C4: set_intensity(v) on a module with index 0..63, port open: with c    *)
(* the value of 0..15 nearest to v, nothing is written when c is the       *)
(* cached intensity; otherwise the call succeeds, the cache becomes c and  *)
(* exactly one frame with payload [0x46, module_index, c] is written.      *)
(***************************************************************************)
C4_Step ==
    (Called("MaxyModule._set_intensity") /\ serial = "open"
        /\ index[call'.pos].module_index \in 0..63)
    => LET module == index[call'.pos]
           c == Nearest(call'.value, 0, 15)
       IN  IF c = module.intensity
           THEN call'.writes = <<>>
           ELSE /\ call'.result = "ok"
                /\ index' = [index EXCEPT ![call'.pos].intensity = c]
                /\ Len(call'.writes) = 1
                /\ Delimited(call'.writes[1])
                /\ Unescape(Region(call'.writes[1])) = <<70, module.module_index, c>>

C4_SetIntensityWritesClamped == [][C4_Step]_vars

(***************************************************************************)
(* C5: assigning module.target or calling module.set_immediate_target on a *)
(* module of a kind that forbids main-target changes (2x4x7seg) fails with *)
(* TypeError, writes nothing and changes no cache; on a kind that allows   *)
(* it, cache and port see what the same call on sub-module 0 produces: the *)
(* nearest value c of the range cached in sub-module 0 and, when c         *)
(* differs from the cache and the port is open (module index 0..63), one   *)
(* frame with opcode 0x43 (0x45 when immediate), sub-module byte 0 and c.  *)
(***************************************************************************)
C5_Step ==
    (call'.op \in {"MaxyModule._set_target", "MaxyModule.set_immediate_target"})
    => LET module == index[call'.pos]
           c == Nearest(call'.value, RangeMin(module), RangeMax(module))
           opcode == IF call'.op = "MaxyModule._set_target" THEN 67 ELSE 69
       IN  IF module.module_type = "MaxyModule_2x4x7seg"
           THEN call'.result = "TypeError" /\ call'.writes = <<>> /\ index' = index
           ELSE IF c = module.sub_modules[1].target
           THEN call'.result = "ok" /\ call'.writes = <<>> /\ index' = index
           ELSE /\ index' = [index EXCEPT ![call'.pos].sub_modules[1].target = c]
                /\ IF serial = "open" /\ module.module_index \in 0..63
                   THEN /\ call'.result = "ok"
                        /\ Len(call'.writes) = 1
                        /\ IsTargetFrame(call'.writes[1], opcode,
                                         module.module_index, 0, c)
                   ELSE call'.result \notin {"ok", "TypeError"} /\ call'.writes = <<>>

C5_MainTargetGuard == [][C5_Step]_vars

\* the tail module refused a main-target change while another value was cached
C5_Witness ==
    /\ call.op = "MaxyModule._set_target"
    /\ call.result = "TypeError"
    /\ call.value = 42
    /\ index[call.pos].module_type = "MaxyModule_2x4x7seg"
    /\ index[call.pos].sub_modules[1].target = 9999

(***************************************************************************)
(* C6: every encoder validates every integer field against its range      *)
(* before encoding: with a field out of range it raises ValueError and     *)
(* returns nothing, with all fields in range it returns the message.       *)
(***************************************************************************)
FieldRange(field) ==
    CASE field = "module_index" -> 0..63
      [] field = "sub_module" -> 0..7
      [] field = "intensity" -> 0..15
      [] field = "speed_divider" -> 0..65000
      [] field = "module_type" -> 0..63

\* the target range is too wide to enumerate
InFieldRange(field, v) ==
    IF field = "target" THEN -9999999 <= v /\ v <= 99999999
    ELSE v \in FieldRange(field)

FieldWidth(field) ==
    CASE field = "target" -> 4 [] field = "speed_divider" -> 2 [] OTHER -> 1

EncoderFields ==
    [reset_all_module_config_message |-> <<>>,
     set_all_module_intensity |-> <<"intensity">>,
     set_module_target_message |-> <<"module_index", "target">>,
     set_module_immediate_target_message |-> <<"module_index", "target">>,
     set_sub_module_immediate_target_message |-> <<"module_index", "sub_module", "target">>,
     set_sub_module_target_message |-> <<"module_index", "sub_module", "target">>,
     set_module_intensity |-> <<"module_index", "intensity">>,
     set_module_speed_divider |-> <<"module_index", "speed_divider">>,
     set_module_type |-> <<"module_index", "module_type">>]

RECURSIVE SumWidths(_)
SumWidths(fields) ==
    IF fields = <<>> THEN 0 ELSE FieldWidth(Head(fields)) + SumWidths(Tail(fields))

C6_EncodersValidateEveryField ==
    (pure.applied /\ pure.fn \in DOMAIN EncoderFields)
    => LET fields == EncoderFields[pure.fn]
       IN  IF \A i \in 1..Len(fields) : InFieldRange(fields[i], pure.args[i])
           THEN pure.error = "" /\ Len(pure.bytes) = 1 + SumWidths(fields)
           ELSE pure.error = "ValueError" /\ pure.bytes = <<>>

(***************************************************************************)
(* C7: escape(p) is p with every 0xFC byte doubled and every other byte,   *)
(* 0xFD, 0xFE and 0xFF included, copied unchanged; frame(p) is 0xFD, then  *)
(* escape(p), then 0xFE.                                                   *)
(* As amended: every byte from 0xFC up (0xFC, 0xFD, 0xFE, 0xFF) is         *)
(* preceded by one 0xFC byte, every byte below 0xFC is copied unchanged.   *)
(***************************************************************************)
\* how many of the first i-1 bytes of p are in the set `escaped`
Before(p, i, escaped) == Cardinality({j \in 1..(i - 1) : p[j] \in escaped})

\* out is p with one 0xFC put in front of every byte of the set `escaped`
EscapedBy(p, out, escaped) ==
    /\ Len(out) = Len(p) + Before(p, Len(p) + 1, escaped)
    /\ \A i \in 1..Len(p) :
          LET at == i + Before(p, i, escaped)
          IN  IF p[i] \in escaped
              THEN out[at] = 252 /\ out[at + 1] = p[i]
              ELSE out[at] = p[i]

CodecAgrees(escaped) ==
    /\ (pure.applied /\ pure.fn = "escape_message")
          => EscapedBy(pure.args[1], pure.bytes, escaped)
    /\ (pure.applied /\ pure.fn = "frame")
          => Delimited(pure.bytes) /\ EscapedBy(pure.args[1], Region(pure.bytes), escaped)

C7_OnlyFCDoubled == CodecAgrees({252})

C7_FromFCEscaped == CodecAgrees(252..255)

\* a payload with an ordinary byte, 0xFC and 0xFD has been framed
C7_Witness ==
    /\ pure.applied
    /\ pure.fn = "frame"
    /\ pure.args[1] = <<42, 252, 253>>
    /\ pure.bytes = <<253, 42, 252, 252, 252, 253, 254>>

(***************************************************************************)
(* C8: in every frame written to the port, the bytes between the leading   *)
(* 0xFD and the trailing 0xFE hold no 0xFC, 0xFD or 0xFE that is neither   *)
(* an escape byte nor the byte an escape consumes.                         *)
(***************************************************************************)
C8_FramesUnambiguous ==
    \A i \in 1..Len(call.writes) :
        Delimited(call.writes[i]) /\ WellEscaped(Region(call.writes[i]))

\* the target 0x00FCFDFE went out with each of its three special bytes escaped
C8_Witness ==
    /\ call.op \in TargetOps
    /\ call.value = 16580094
    /\ call.writes = << <<253, 67, 0, 0, 0, 252, 252, 252, 253, 252, 254, 254>> >>

(***************************************************************************)
(* C9: one 8x7seg module registered at index 0 under the name "Right1",    *)
(* port open, target still 0: setting the target of "Right1" to 42 makes   *)
(* exactly one write, of the bytes FD 43 00 00 00 00 2A FE.                *)
(* As amended: of the bytes FD 43 00 00 00 00 00 2A FE (the target takes   *)
(* four bytes after the module and sub-module bytes).                      *)
(***************************************************************************)
C9_Case ==
    /\ Called("MaxyModule._set_target")
    /\ call'.value = 42
    /\ serial = "open"
    /\ Len(index) = 1
    /\ index[1].module_type = "MaxyModule_8x7seg"
    /\ index[1].module_index = 0
    /\ index[1].sub_modules[1].target = 0
    /\ "Right1" \in DOMAIN name
    /\ name["Right1"] = ModuleRef(call'.pos)

C9_EightBytes ==
    [][C9_Case => call'.writes = << <<253, 67, 0, 0, 0, 0, 42, 254>> >>]_vars

C9_NineBytes ==
    [][C9_Case => call'.writes = << <<253, 67, 0, 0, 0, 0, 0, 42, 254>> >>]_vars

C9_Witness ==
    /\ call.op = "MaxyModule._set_target"
    /\ call.value = 42
    /\ call.result = "ok"
    /\ Len(index) = 1
    /\ index[1].module_index = 0
    /\ "Right1" \in DOMAIN name
    /\ name["Right1"] = ModuleRef(call.pos)
    /\ index[1].sub_modules[1].target = 42
    /\ Len(call.writes) = 1

(***************************************************************************)
(* C10: after define_modules the module at position i of the collection    *)
(* has module_index i (0-based), also when the definitions hold None       *)
(* entries, and has the sub-modules 0..SUB_MODULE_COUNT-1 in order; no     *)
(* other operation changes a module_index or the order of the collection.  *)
(***************************************************************************)
KindCount(module) == IF module.module_type = "MaxyModule_2x4x7seg" THEN 2 ELSE 1

Shape(idx) == [i \in 1..Len(idx) |-> <<idx[i].module_index, idx[i].module_type>>]

C10_Step ==
    /\ \A i \in 1..Len(index') :
          /\ index'[i].module_index = i - 1
          /\ Len(index'[i].sub_modules) = KindCount(index'[i])
          /\ \A k \in 1..Len(index'[i].sub_modules) :
                index'[i].sub_modules[k].sub_module_id = k - 1
    /\ (call'.op # "define_modules") => Shape(index') = Shape(index)

C10_IndexIsPosition == [][C10_Step]_vars

(***************************************************************************)
(* C11: when the write of set_target, set_immediate_target or              *)
(* set_intensity fails (the port rejects it, or no port is attached), the  *)
(* call ends with that failure, the cache of the addressed unit holds the  *)
(* new clamped value, and no other cache has changed.                      *)
(***************************************************************************)
WriteFailures == {"IOError", "SerialException"}

C11_Step ==
    /\ (call'.op \in TargetOps)
       => LET module == index[call'.pos]
              k == IF call'.op \in {"MaxyModule._set_target",
                                    "MaxyModule.set_immediate_target"}
                   THEN 1 ELSE call'.sub
              c == Nearest(call'.value, RangeMin(module), RangeMax(module))
          IN  /\ (call'.result \in WriteFailures)
                 => /\ c # module.sub_modules[k].target
                    /\ index' = [index EXCEPT ![call'.pos].sub_modules[k].target = c]
                    /\ call'.writes = <<>>
              /\ (serial # "open" /\ c # module.sub_modules[k].target
                    /\ call'.result # "TypeError" /\ module.module_index \in 0..63)
                 => call'.result \in WriteFailures
    /\ Called("MaxyModule._set_intensity")
       => LET module == index[call'.pos]
              c == Nearest(call'.value, 0, 15)
          IN  (call'.result \in WriteFailures)
              => /\ c # module.intensity
                 /\ serial # "open"
                 /\ index' = [index EXCEPT ![call'.pos].intensity = c]
                 /\ call'.writes = <<>>

C11_FailedWriteKeepsNewValue == [][C11_Step]_vars

\* the port rejected the write for the second part of the tail: its cache
\* holds the new value, the first part still has the value of registration
C11_Witness ==
    /\ call.op = "MaxySubModule._set_target"
    /\ call.result = "SerialException"
    /\ call.value = 42
    /\ call.sub = 2
    /\ index[call.pos].sub_modules[2].target = 42
    /\ index[call.pos].sub_modules[1].target = 0

(***************************************************************************)
(* C12  One write per call, one frame per write, in the order of the calls *)
(***************************************************************************)
\* f is one complete frame: delimited, and no delimiter stands inside it
OneFrame(f) == Delimited(f) /\ WellEscaped(Region(f))

\* what the frame f says is what the call d asked for
Carries(f, d) ==
    LET p == Unescape(Region(f))
        lo == IF d.module_type = "MaxyModule_2x4x7seg" THEN -999 ELSE -9999999
        hi == IF d.module_type = "MaxyModule_2x4x7seg" THEN 9999 ELSE 99999999
    IN  /\ OneFrame(f)
        /\ CASE d.op \in {"MaxySubModule._set_target", "MaxyModule._set_target"} ->
                    IsTargetFrame(f, 67, d.module_index, d.sub_module_id,
                                  Nearest(d.value, lo, hi))
              [] d.op \in {"MaxySubModule.set_immediate_target",
                           "MaxyModule.set_immediate_target"} ->
                    IsTargetFrame(f, 69, d.module_index, d.sub_module_id,
                                  Nearest(d.value, lo, hi))
              [] d.op = "MaxyModule._set_intensity" ->
                    p = <<70, d.module_index, Nearest(d.value, 0, 15)>>
              [] d.op = "set_global_intensity" -> p = <<51, d.value>>
              [] OTHER -> Len(p) = 3 /\ p[1] = 58

\* the port has received one frame per write, in the order of the calls
InCallOrder ==
    /\ Len(log.received) = Len(log.issued)
    /\ \A i \in 1..Len(log.received) : Carries(log.received[i], log.issued[i])

C12_Step ==
    (call'.op \in MutatingOps)
    => /\ Len(call'.writes) <= 1
       /\ \A i \in 1..Len(call'.writes) : OneFrame(call'.writes[i])
       /\ log'.received = log.received \o call'.writes
       /\ InCallOrder'

\* C12: every mutating call (set_intensity, set_target, set_immediate_target,
\* set_global_intensity) makes at most one write, the write is one complete
\* frame, it has reached the port when the call returns, and the port has
\* received the frames in the order of the calls that made them
C12_OneWriteInOrder == [][C12_Step]_vars

\* two mutating calls have written, an immediate target and then an
\* intensity, and the port holds their frames in that order
C12_Witness ==
    /\ Len(log.received) = 2
    /\ log.issued[1].op = "MaxySubModule.set_immediate_target"
    /\ log.issued[2].op = "MaxyModule._set_intensity"
    /\ log.issued[1].value = 42
    /\ call.op = "MaxyModule._set_intensity"
    /\ call.writes = <<log.received[2]>>

(***************************************************************************)
(* C13  configure_module_types writes one SetModuleType frame per module   *)
(***************************************************************************)
\* the type byte the protocol gives to a kind of module
KindId(module) ==
    CASE module.module_type = "MaxyModule_8x7seg" -> 3
      [] module.module_type = "MaxyModule_2x4x7seg" -> 4
      [] OTHER -> 0

\* f is one frame carrying [0x3A, module_index, type id of the module's kind]
IsModuleTypeFrame(f, module) ==
    /\ OneFrame(f)
    /\ Unescape(Region(f)) = <<58, module.module_index, KindId(module)>>

C13_Step ==
    (Called("configure_module_types") /\ serial = "open")
    => /\ call'.result = "ok"
       /\ Len(call'.writes) = Len(index)
       /\ \A i \in 1..Len(index) : IsModuleTypeFrame(call'.writes[i], index[i])

\* C13: on an open port that accepts writes, every configure_module_types
\* writes exactly one SetModuleType frame [0x3A, module_index, type id] per
\* registered module, in the order of the positions, and nothing else
C13_ConfiguresEveryModule == [][C13_Step]_vars

(***************************************************************************)
(* C14  connect changes no module and no cache                             *)
(***************************************************************************)
C14_Step ==
    Called("connect")
    => /\ index' = index
       /\ name' = name
       /\ \A i \in 1..Len(call'.writes) :
             /\ i <= Len(index)
             /\ IsModuleTypeFrame(call'.writes[i], index[i])

\* C14: connect, the first or a later one, leaves the modules, every cached
\* intensity and every cached target as they were, and writes SetModuleType
\* frames only
C14_ConnectKeepsCaches == [][C14_Step]_vars

\* a connect has succeeded on a controller whose caches hold values other
\* than the reset ones
C14_Witness ==
    /\ call.op = "connect"
    /\ call.result = "ok"
    /\ serial = "open"
    /\ Len(call.writes) = 2
    /\ index[1].intensity = 15
    /\ index[1].sub_modules[1].target = 42

(***************************************************************************)
(* C15  set_global_intensity always writes, and touches no cache           *)
(***************************************************************************)
C15_Step ==
    (Called("set_global_intensity") /\ call'.value \in 0..15 /\ serial = "open")
    => /\ call'.result = "ok"
       /\ call'.writes = << <<253, 51, call'.value, 254>> >>
       /\ index' = index

\* C15: on an open port, set_global_intensity(v) with v in 0..15 writes
\* exactly one frame with payload [0x33, v], also right after the same
\* broadcast, and leaves every cached intensity and target unchanged
C15_GlobalIntensityAlwaysWrites == [][C15_Step]_vars

\* the broadcast was written on a controller whose module keeps a cached
\* intensity other than the broadcast one
C15_Witness ==
    /\ call.op = "set_global_intensity"
    /\ call.value = 15
    /\ call.writes = << <<253, 51, 15, 254>> >>
    /\ Len(index) >= 1
    /\ index[1].intensity = 0
    /\ index[1].sub_modules[1].target = 42

(***************************************************************************)
(* C16  set_module_target_message: opcode, module byte, 4-byte target      *)
(***************************************************************************)
C16_Case ==
    /\ pure.applied
    /\ pure.fn = "set_module_target_message"
    /\ pure.args[1] \in 0..63
    /\ pure.args[2] \in -9999999..99999999

\* C16: for module_index in 0..63 and target in -9999999..99999999,
\* set_module_target_message returns exactly 6 bytes: 0x42, the module
\* index, and the target as 4 big-endian two's-complement bytes
C16_ModuleTargetSixBytes ==
    C16_Case
    => /\ pure.error = ""
       /\ Len(pure.bytes) = 6
       /\ \A i \in 1..6 : pure.bytes[i] \in 0..255
       /\ pure.bytes[1] = 66
       /\ pure.bytes[2] = pure.args[1]
       /\ Signed32(SubSeq(pure.bytes, 3, 6)) = pure.args[2]

\* the most negative target at the highest module index
C16_Witness ==
    /\ C16_Case
    /\ pure.args = <<63, -9999999>>
    /\ pure.bytes = <<66, 63, 255, 103, 105, 129>>

(***************************************************************************)
(* C17  set_target and set_immediate_target share the cached target        *)
(***************************************************************************)
SubTargetOps == {"MaxySubModule._set_target", "MaxySubModule.set_immediate_target"}

C17_Step ==
    /\ (Called("MaxySubModule.set_immediate_target") /\ serial = "open"
            /\ index[call'.pos].module_index \in 0..63)
       => LET module == index[call'.pos]
              k == call'.sub
              c == Nearest(call'.value, RangeMin(module), RangeMax(module))
          IN  IF c = module.sub_modules[k].target
              THEN call'.writes = <<>> /\ index' = index
              ELSE /\ index' = [index EXCEPT ![call'.pos].sub_modules[k].target = c]
                   /\ Len(call'.writes) = 1
                   /\ IsTargetFrame(call'.writes[1], 69, module.module_index,
                                    module.sub_modules[k].sub_module_id, c)
    /\ (call.op \in SubTargetOps /\ call'.op \in SubTargetOps
            /\ call'.pos = call.pos /\ call'.sub = call.sub
            /\ call'.value = call.value)
       => /\ call'.writes = <<>>
          /\ index' = index
          /\ call'.result = "ok"

Backoff(n) == IF n = 1 THEN 5 ELSE IF n = 2 THEN 10 ELSE 20

\* C18: the wait that follows the n-th connection attempt failed in a row,
\* counted from start-up or from the last successful connection, is 5 s
\* for n = 1, 10 s for n = 2 and 20 s for every n >= 3
C18_BackoffSchedule ==
    (driver.pc = "sleep" /\ driver.cause = "connect")
    => driver.delay = Backoff(driver.failed)

(***************************************************************************)
(* C19  While every write is accepted, the caches are what the frames said *)
(***************************************************************************)
\* the target the display holds for a sub-module: that of the latest target
\* frame written for its two address bytes, 0 when there was none
Displayed(module, sub_module) ==
    LET key == <<module.module_index, sub_module.sub_module_id>>
    IN  IF key \in DOMAIN hist.sent THEN hist.sent[key] ELSE 0

\* C19: as long as no write has failed, the cached target of every
\* sub-module of a module with index 0..63 is the target of the latest
\* target frame (0x43 or 0x45) written for it since define_modules, or 0
\* when no such frame was written
C19_CacheIsLastFrame ==
    hist.clean
    => \A p \in 1..Len(index) :
          (index[p].module_index \in 0..63)
          => \A k \in 1..Len(index[p].sub_modules) :
                index[p].sub_modules[k].target
                    = Displayed(index[p], index[p].sub_modules[k])

\* set_target(0) on a sub-module never written to wrote nothing, while the
\* other sub-module of the module holds the 9999 its frame carried
C19_Witness ==
    /\ hist.clean
    /\ serial = "open"
    /\ call.op = "MaxySubModule._set_target"
    /\ call.value = 0
    /\ call.sub = 1
    /\ call.writes = <<>>
    /\ <<index[call.pos].module_index, 0>> \notin DOMAIN hist.sent
    /\ index[call.pos].sub_modules[1].target = 0
    /\ Len(index[call.pos].sub_modules) = 2
    /\ index[call.pos].sub_modules[2].target = 9999
    /\ hist.sent[<<index[call.pos].module_index, 1>>] = 9999

(***************************************************************************)
(* C20  A target whose write failed is not sent by asking for it again     *)
(***************************************************************************)
\* the sub-module a target call addresses: position in index, position in
\* sub_modules (a module-level call addresses the first sub-module)
Addressed == <<call'.pos, IF call'.sub = 0 THEN 1 ELSE call'.sub>>

\* some write of the step is a target frame for the sub-module at u
WritesTargetFor(u) ==
    \E i \in 1..Len(call'.writes) :
        LET p == Unescape(Region(call'.writes[i]))
        IN  /\ Len(p) = 7
            /\ p[1] \in {67, 69}
            /\ p[2] = index[u[1]].module_index
            /\ p[3] = index[u[1]].sub_modules[u[2]].sub_module_id

C20_Step ==
    \A u \in DOMAIN hist.unsent :
        /\ (call'.op \in TargetOps /\ Addressed = u
                /\ Nearest(call'.value, RangeMin(index[u[1]]), RangeMax(index[u[1]]))
                        = hist.unsent[u])
           => call'.writes = <<>>
        /\ (call'.op # "define_modules" /\ WritesTargetFor(u))
           => /\ call'.op \in TargetOps
              /\ Addressed = u
              /\ Nearest(call'.value, RangeMin(index[u[1]]), RangeMax(index[u[1]]))
                        # hist.unsent[u]

\* C20: once the write of a target has failed, a set_target or
\* set_immediate_target on that sub-module whose value clamps to the same
\* target writes nothing, however many connects succeeded in between, and
\* a target frame for the sub-module is written only by a request whose
\* clamped value differs
C20_FailedTargetNotResent == [][C20_Step]_vars

\* on an open port again, the request whose write had failed was repeated
\* and wrote nothing
C20_Witness ==
    /\ serial = "open"
    /\ call.op = "MaxySubModule.set_immediate_target"
    /\ call.value = 20000
    /\ call.result = "ok"
    /\ call.writes = <<>>
    /\ <<call.pos, call.sub>> \in DOMAIN hist.unsent
    /\ hist.unsent[<<call.pos, call.sub>>] = 9999
    /\ <<index[call.pos].module_index, call.sub - 1>> \notin DOMAIN hist.sent

====
